---- MODULE Spec2Model ----
(***************************************************************************)
(* State-machine model of the eosio.wram contract (RAMSDAO/eosio.wram):    *)
(* the WRAM token ledger, the wrap/unwrap engine, the notification         *)
(* handlers, the policy singleton and the one-shot migration.              *)
(*                                                                         *)
(* One step of the model is one atomic trigger of the host chain: a        *)
(* top-level action together with the notifications it raises and the      *)
(* inline actions those send, executed in the order the host executes      *)
(* them.  A failed check() anywhere aborts the whole trigger, which then   *)
(* commits nothing.                                                        *)
(*                                                                         *)
(* Quantities are counted in blocks of 128 GiB (2^37 bytes), so that the   *)
(* migration target 256*2^30 is 2 and the migration mint 128*2^30 is 1.    *)
(* Every operation of the contract is an addition, a subtraction or a      *)
(* comparison of quantities, so the scaling preserves its behaviour.       *)
(***************************************************************************)
EXTENDS Integers, FiniteSets, Sequences, TLC

\* ------------------------------------------------------------------ names
\* get_self(): the account the contract is deployed on
Self == "eosio.wram"
\* const name RAM_BANK
RAM_BANK == "ramdeposit11"
\* const symbol RAM_SYMBOL
RAM_SYMBOL == "WRAM"
\* ordinary accounts of the chain
Users == {"alice"}
Accounts == {Self, RAM_BANK} \cup Users
\* symbols a quantity can carry
Symbols == {RAM_SYMBOL, "EOS"}
\* memos: the sentinel of on_ramtransfer and one ordinary memo
Memos == {"ignore", "memo"}

\* ----------------------------------------------------------------- bounds
\* largest quantity a single trigger carries
MaxBytes == 2
\* RAM every ordinary account owns at genesis
UserRam == 1
\* total RAM that can exist on the chain (caps buyram)
MaxRam == 3
\* foreign-token amount the contract account holds at genesis
MaxForeign == 1
\* largest maximum_supply the token is created with
MaxCreate == 3

\* -------------------------------------------------------------- constants
\* uint64_t max_supply = 256LL * 1024 * 1024 * 1024  (in 128 GiB blocks)
MIGRATE_MAX_SUPPLY == 2
\* asset to_rams = {128LL * 1024 * 1024 * 1024, RAM_SYMBOL}  (in 128 GiB blocks)
MIGRATE_MINT == 1
\* maximum_supply values the create action is called with
CreateSupplies == {MIGRATE_MAX_SUPPLY, MaxCreate}
\* marker of a missing row of the accounts table
NoRow == -1

VARIABLES
    stat,        \* stats table row of WRAM: [exists, supply, max_supply, issuer]
    accounts,    \* accounts table: account -> WRAM balance, or NoRow
    config,      \* config singleton: [wrap_ram_enabled, unwrap_ram_enabled]
    egresslist,  \* egresslist table: set of accounts
    ram,         \* RAM owned by each account at the system contract
    foreign,     \* amount of a foreign token held by the contract account
    pool_net,    \* RAM the contract moved into RAM_BANK minus RAM it moved out
    migrated,    \* supply at the moment migrate committed, or NoRow
    last,        \* the last trigger: [op, ok, msg, note, undo]
    snap         \* values before the last trigger, kept when it was a wrap

vars == <<stat, accounts, config, egresslist, ram, foreign, pool_net, migrated, last, snap>>

\* the state of the chain that the contract reads and writes
chain == <<stat, accounts, config, egresslist, ram, foreign, pool_net, migrated>>

\* the chain state a trigger runs on.  ok turns FALSE when a check() fails
\* and msg is then the message of that check; note is the memo of the engine
\* operation the trigger ran, to and n are that operation's arguments
Cur ==
    [ok |-> TRUE, msg |-> "", note |-> "", to |-> Self, n |-> 0,
     stat |-> stat, accounts |-> accounts, config |-> config,
     egresslist |-> egresslist, ram |-> ram, foreign |-> foreign,
     pool_net |-> pool_net, migrated |-> migrated]

\* check(false, msg): abort the trigger
Abort(s, msg) == [s EXCEPT !.ok = FALSE, !.msg = msg]

\* sum of the balances of all rows of the accounts table
RECURSIVE SumBalances(_, _)
SumBalances(acc, S) ==
    IF S = {} THEN 0
    ELSE LET a == CHOOSE x \in S : TRUE
         IN (IF acc[a] = NoRow THEN 0 ELSE acc[a]) + SumBalances(acc, S \ {a})

\* total RAM owned by the accounts of S
RECURSIVE SumRam(_, _)
SumRam(r, S) ==
    IF S = {} THEN 0
    ELSE LET a == CHOOSE x \in S : TRUE IN r[a] + SumRam(r, S \ {a})

\* ------------------------------------------------------------ token ledger
\* wram::sub_balance: the row must exist and hold at least value
sub_balance(s, owner, value) ==
    IF ~s.ok THEN s
    ELSE IF s.accounts[owner] = NoRow THEN Abort(s, "no balance object found")
    ELSE IF s.accounts[owner] < value THEN Abort(s, "overdrawn balance")
    ELSE [s EXCEPT !.accounts[owner] = @ - value]

\* wram::add_balance: creates the row when it is missing
add_balance(s, owner, value) ==
    IF ~s.ok THEN s
    ELSE IF s.accounts[owner] = NoRow THEN [s EXCEPT !.accounts[owner] = value]
    ELSE [s EXCEPT !.accounts[owner] = @ + value]

\* wram::check_disable_transfer: receivers on the egress list are rejected
check_disable_transfer(s, receiver) ==
    IF ~s.ok THEN s
    ELSE IF receiver \in s.egresslist THEN Abort(s, "transfer disabled to receiver")
    ELSE s

\* wram::create
create(s, auth, issuer, maximum_supply) ==
    IF ~s.ok THEN s
    ELSE IF auth # Self THEN Abort(s, "missing required authority")
    ELSE IF maximum_supply <= 0 THEN Abort(s, "max-supply must be positive")
    ELSE IF s.stat.exists THEN Abort(s, "token with symbol already exists")
    ELSE [s EXCEPT !.stat = [exists |-> TRUE, supply |-> 0,
                             max_supply |-> maximum_supply, issuer |-> issuer]]

\* wram::issue
issue(s, auth, to, quantity) ==
    IF ~s.ok THEN s
    ELSE IF ~s.stat.exists THEN Abort(s, "token with symbol does not exist")
    ELSE IF to # s.stat.issuer THEN Abort(s, "tokens can only be issued to issuer account")
    ELSE IF auth # s.stat.issuer THEN Abort(s, "missing required authority")
    ELSE IF quantity <= 0 THEN Abort(s, "must issue positive quantity")
    ELSE IF quantity > s.stat.max_supply - s.stat.supply
         THEN Abort(s, "quantity exceeds available supply")
    ELSE add_balance([s EXCEPT !.stat.supply = @ + quantity], s.stat.issuer, quantity)

\* wram::retire
retire(s, auth, quantity) ==
    IF ~s.ok THEN s
    ELSE IF ~s.stat.exists THEN Abort(s, "token with symbol does not exist")
    ELSE IF auth # s.stat.issuer THEN Abort(s, "missing required authority")
    ELSE IF quantity <= 0 THEN Abort(s, "must retire positive quantity")
    ELSE sub_balance([s EXCEPT !.stat.supply = @ - quantity], s.stat.issuer, quantity)

\* wram::open
open(s, auth, owner, ram_payer) ==
    IF ~s.ok THEN s
    ELSE IF auth # ram_payer THEN Abort(s, "missing required authority")
    ELSE IF ~s.stat.exists THEN Abort(s, "symbol does not exist")
    ELSE IF s.accounts[owner] = NoRow THEN [s EXCEPT !.accounts[owner] = 0]
    ELSE s

\* wram::close
close(s, auth, owner) ==
    IF ~s.ok THEN s
    ELSE IF auth # owner THEN Abort(s, "missing required authority")
    ELSE IF s.accounts[owner] = NoRow THEN Abort(s, "balance row already deleted or never existed")
    ELSE IF s.accounts[owner] # 0 THEN Abort(s, "cannot close because the balance is not zero")
    ELSE [s EXCEPT !.accounts[owner] = NoRow]

\* ------------------------------------------------- system contract (eosio)
RECURSIVE on_ramtransfer(_, _, _, _, _)

\* eosio::ramtransfer as the contract relies on it: from authorizes, bytes
\* move from one account to the other, both accounts are notified
sys_ramtransfer(s, auth, from, to, bytes, memo) ==
    IF ~s.ok THEN s
    ELSE IF auth # from THEN Abort(s, "missing required authority")
    ELSE IF bytes <= 0 THEN Abort(s, "eosio: must transfer positive quantity")
    ELSE IF s.ram[from] < bytes THEN Abort(s, "eosio: insufficient ram")
    ELSE LET moved == [s EXCEPT !.ram = [a \in Accounts |->
                          IF a = from /\ a = to THEN s.ram[a]
                          ELSE IF a = from THEN s.ram[a] - bytes
                          ELSE IF a = to THEN s.ram[a] + bytes
                          ELSE s.ram[a]]]
         IN IF Self \in {from, to}
            THEN on_ramtransfer(moved, from, to, bytes, memo)
            ELSE moved

\* ramtransfer_action::send from the contract: the inline ramtransfer, and
\* the account of what the contract moved into and out of RAM_BANK
send_ramtransfer(s, auth, from, to, bytes, memo) ==
    LET r == sys_ramtransfer(s, auth, from, to, bytes, memo)
    IN IF ~r.ok THEN r
       ELSE IF to = RAM_BANK /\ from # RAM_BANK THEN [r EXCEPT !.pool_net = @ + bytes]
       ELSE IF from = RAM_BANK /\ to # RAM_BANK THEN [r EXCEPT !.pool_net = @ - bytes]
       ELSE r

\* ----------------------------------------------------- wrap/unwrap engine
\* unwrap_ram as it would be without the policy check
unwrap_ram_nogate(s, to, quantity, sym) ==
    IF ~s.ok THEN s
    ELSE IF sym # RAM_SYMBOL
         THEN Abort(s, "Only the system WRAM token is accepted for transfers.")
    ELSE LET s0 == [s EXCEPT !.note = "unwrap ram", !.to = to, !.n = quantity]
             s1 == retire(s0, Self, quantity)
             s2 == send_ramtransfer(s1, RAM_BANK, RAM_BANK, to, quantity, "unwrap ram")
         IN s2

\* unwrap_ram as it would be if it released the RAM from the contract's own
\* account instead of RAM_BANK
unwrap_ram_fromself(s, to, quantity, sym) ==
    IF ~s.ok THEN s
    ELSE IF sym # RAM_SYMBOL
         THEN Abort(s, "Only the system WRAM token is accepted for transfers.")
    ELSE IF ~s.config.unwrap_ram_enabled THEN Abort(s, "unwrap ram is currently disabled")
    ELSE LET s0 == [s EXCEPT !.note = "unwrap ram", !.to = to, !.n = quantity]
             s1 == retire(s0, Self, quantity)
             s2 == send_ramtransfer(s1, Self, Self, to, quantity, "unwrap ram")
         IN s2

\* unwrap_ram as it would be without the retire
unwrap_ram_noretire(s, to, quantity, sym) ==
    IF ~s.ok THEN s
    ELSE IF sym # RAM_SYMBOL
         THEN Abort(s, "Only the system WRAM token is accepted for transfers.")
    ELSE IF ~s.config.unwrap_ram_enabled THEN Abort(s, "unwrap ram is currently disabled")
    ELSE LET s0 == [s EXCEPT !.note = "unwrap ram", !.to = to, !.n = quantity]
             s2 == send_ramtransfer(s0, RAM_BANK, RAM_BANK, to, quantity, "unwrap ram")
         IN s2

\* wram::unwrap_ram
unwrap_ram(s, to, quantity, sym) ==
    IF ~s.ok THEN s
    ELSE IF sym # RAM_SYMBOL
         THEN Abort(s, "Only the system WRAM token is accepted for transfers.")
    ELSE IF ~s.config.unwrap_ram_enabled THEN Abort(s, "unwrap ram is currently disabled")
    ELSE LET s0 == [s EXCEPT !.note = "unwrap ram", !.to = to, !.n = quantity]
             s1 == retire(s0, Self, quantity)
             s2 == send_ramtransfer(s1, RAM_BANK, RAM_BANK, to, quantity, "unwrap ram")
         IN s2

\* wram::transfer; a transfer to the contract is the unwrap
transfer(s, auth, from, to, quantity, sym) ==
    IF ~s.ok THEN s
    ELSE IF from = to THEN Abort(s, "cannot transfer to self")
    ELSE IF auth # from THEN Abort(s, "missing required authority")
    ELSE IF sym # RAM_SYMBOL \/ ~s.stat.exists THEN Abort(s, "unable to find key")
    ELSE IF quantity <= 0 THEN Abort(s, "must transfer positive quantity")
    ELSE LET s0 == check_disable_transfer(s, to)
             s1 == sub_balance(s0, from, quantity)
             s2 == add_balance(s1, to, quantity)
         IN IF to = Self THEN unwrap_ram(s2, from, quantity, sym) ELSE s2

\* unwrap as it would be if it took the owner's authorization for granted
unwrap_noauth(s, auth, owner, bytes) ==
    transfer(s, owner, owner, Self, bytes, RAM_SYMBOL)

\* unwrap as it would be if it unwrapped what the owner holds when asked
\* for more
unwrap_clamped(s, auth, owner, bytes) ==
    LET held == IF s.accounts[owner] = NoRow THEN 0 ELSE s.accounts[owner]
    IN transfer(s, auth, owner, Self, IF bytes > held THEN held ELSE bytes, RAM_SYMBOL)

\* wram::unwrap
unwrap(s, auth, owner, bytes) ==
    transfer(s, auth, owner, Self, bytes, RAM_SYMBOL)

\* wrap_ram as it would be if it kept the RAM instead of moving it to RAM_BANK
wrap_ram_keepram(s, to, bytes) ==
    IF ~s.ok THEN s
    ELSE IF bytes <= 0 THEN Abort(s, "must transfer positive quantity")
    ELSE IF to = Self THEN Abort(s, "cannot wrap ram to self")
    ELSE LET s0 == [s EXCEPT !.note = "wrap ram", !.to = to, !.n = bytes]
             s2 == issue(s0, Self, Self, bytes)
             s3 == transfer(s2, Self, Self, to, bytes, RAM_SYMBOL)
         IN s3

\* wrap_ram as it would be if it skipped the delivery to the contract itself
\* instead of rejecting it
wrap_ram_selfmint(s, to, bytes) ==
    IF ~s.ok THEN s
    ELSE IF bytes <= 0 THEN Abort(s, "must transfer positive quantity")
    ELSE LET s0 == [s EXCEPT !.note = "wrap ram", !.to = to, !.n = bytes]
             s1 == send_ramtransfer(s0, Self, Self, RAM_BANK, bytes, "wrap ram")
             s2 == issue(s1, Self, Self, bytes)
             s3 == IF to = Self THEN s2
                   ELSE transfer(s2, Self, Self, to, bytes, RAM_SYMBOL)
         IN s3

\* wrap_ram as it would be if it credited the tokens to the receiver's row
\* itself instead of sending the transfer action
wrap_ram_directcredit(s, to, bytes) ==
    IF ~s.ok THEN s
    ELSE IF bytes <= 0 THEN Abort(s, "must transfer positive quantity")
    ELSE IF to = Self THEN Abort(s, "cannot wrap ram to self")
    ELSE LET s0 == [s EXCEPT !.note = "wrap ram", !.to = to, !.n = bytes]
             s1 == send_ramtransfer(s0, Self, Self, RAM_BANK, bytes, "wrap ram")
             s2 == issue(s1, Self, Self, bytes)
             s3 == add_balance(sub_balance(s2, Self, bytes), to, bytes)
         IN s3

\* wrap_ram as it would be if a failed issue ended the wrap instead of
\* aborting the trigger
wrap_ram_partial(s, to, bytes) ==
    IF ~s.ok THEN s
    ELSE IF bytes <= 0 THEN Abort(s, "must transfer positive quantity")
    ELSE IF to = Self THEN Abort(s, "cannot wrap ram to self")
    ELSE LET s0 == [s EXCEPT !.note = "wrap ram", !.to = to, !.n = bytes]
             s1 == send_ramtransfer(s0, Self, Self, RAM_BANK, bytes, "wrap ram")
             s2 == issue(s1, Self, Self, bytes)
             s3 == transfer(s2, Self, Self, to, bytes, RAM_SYMBOL)
         IN IF s1.ok /\ ~s2.ok THEN s1 ELSE s3

\* wrap_ram as it would be if the minted tokens stayed with the contract
wrap_ram_nodeliver(s, to, bytes) ==
    IF ~s.ok THEN s
    ELSE IF bytes <= 0 THEN Abort(s, "must transfer positive quantity")
    ELSE IF to = Self THEN Abort(s, "cannot wrap ram to self")
    ELSE LET s0 == [s EXCEPT !.note = "wrap ram", !.to = to, !.n = bytes]
             s1 == send_ramtransfer(s0, Self, Self, RAM_BANK, bytes, "wrap ram")
             s2 == issue(s1, Self, Self, bytes)
         IN s2

\* wram::wrap_ram
wrap_ram(s, to, bytes) ==
    IF ~s.ok THEN s
    ELSE IF bytes <= 0 THEN Abort(s, "must transfer positive quantity")
    ELSE IF to = Self THEN Abort(s, "cannot wrap ram to self")
    ELSE LET s0 == [s EXCEPT !.note = "wrap ram", !.to = to, !.n = bytes]
             s1 == send_ramtransfer(s0, Self, Self, RAM_BANK, bytes, "wrap ram")
             s2 == issue(s1, Self, Self, bytes)
             s3 == transfer(s2, Self, Self, to, bytes, RAM_SYMBOL)
         IN s3

\* ------------------------------------------------------------ event adapter
\* wram::on_logbuyram
on_logbuyram(s, payer, receiver, bytes) ==
    IF ~s.ok THEN s
    ELSE IF receiver # Self THEN s
    ELSE wrap_ram(s, payer, bytes)

\* on_ramtransfer as it would be without the policy check
on_ramtransfer_nogate(s, from, to, bytes, memo) ==
    IF ~s.ok THEN s
    ELSE IF to # Self THEN s
    ELSE IF memo = "ignore" THEN s
    ELSE wrap_ram(s, from, bytes)

\* on_ramtransfer as it would be without the test of the sentinel memo
on_ramtransfer_nomemo(s, from, to, bytes, memo) ==
    IF ~s.ok THEN s
    ELSE IF to # Self THEN s
    ELSE IF ~s.config.wrap_ram_enabled THEN Abort(s, "wrap ram is currently disabled")
    ELSE wrap_ram(s, from, bytes)

\* on_ramtransfer as it would be if it did not look at the receiving account
on_ramtransfer_anyto(s, from, to, bytes, memo) ==
    IF ~s.ok THEN s
    ELSE IF memo = "ignore" THEN s
    ELSE IF ~s.config.wrap_ram_enabled THEN Abort(s, "wrap ram is currently disabled")
    ELSE wrap_ram(s, from, bytes)

\* wram::on_ramtransfer
on_ramtransfer(s, from, to, bytes, memo) ==
    IF ~s.ok THEN s
    ELSE IF to # Self THEN s
    ELSE IF memo = "ignore" THEN s
    ELSE IF ~s.config.wrap_ram_enabled THEN Abort(s, "wrap ram is currently disabled")
    ELSE wrap_ram(s, from, bytes)

\* on_transfer as it would be if it accepted what it is sent
on_transfer_accept(s, from, to, quantity, sym, memo) ==
    IF ~s.ok THEN s
    ELSE s

\* wram::on_transfer
on_transfer(s, from, to, quantity, sym, memo) ==
    IF ~s.ok THEN s
    ELSE IF to # Self THEN s
    ELSE Abort(s, "only eosio.wram token transfers are allowed")

\* eosio::buyram as the contract relies on it: the bytes bought are credited
\* to receiver, then logbuyram notifies payer and receiver
sys_buyram(s, payer, receiver, bytes) ==
    IF ~s.ok THEN s
    ELSE IF bytes <= 0 THEN Abort(s, "eosio: must purchase a positive amount")
    ELSE LET bought == [s EXCEPT !.ram[receiver] = @ + bytes]
         IN IF Self \in {payer, receiver}
            THEN on_logbuyram(bought, payer, receiver, bytes)
            ELSE bought

\* a transfer action of a foreign token contract: the contract's holding
\* changes, then *::transfer notifies from and to
foreign_transfer(s, from, to, quantity, sym, memo) ==
    IF ~s.ok THEN s
    ELSE IF from = to THEN Abort(s, "cannot transfer to self")
    ELSE IF quantity <= 0 THEN Abort(s, "must transfer positive quantity")
    ELSE IF from = Self /\ s.foreign < quantity THEN Abort(s, "overdrawn balance")
    ELSE LET moved == [s EXCEPT !.foreign =
                          IF from = Self THEN @ - quantity
                          ELSE IF to = Self THEN @ + quantity ELSE @]
         IN IF Self \in {from, to}
            THEN on_transfer(moved, from, to, quantity, sym, memo)
            ELSE moved

\* ------------------------------------------------------------- policy store
\* cfg as it would be if it only ever turned unwrap on
cfg_sticky(s, auth, wrap_ram_enabled, unwrap_ram_enabled) ==
    IF ~s.ok THEN s
    ELSE IF auth # Self THEN Abort(s, "missing required authority")
    ELSE [s EXCEPT !.config = [wrap_ram_enabled |-> wrap_ram_enabled,
                               unwrap_ram_enabled |->
                                  s.config.unwrap_ram_enabled \/ unwrap_ram_enabled]]

\* wram::cfg
cfg(s, auth, wrap_ram_enabled, unwrap_ram_enabled) ==
    IF ~s.ok THEN s
    ELSE IF auth # Self THEN Abort(s, "missing required authority")
    ELSE [s EXCEPT !.config = [wrap_ram_enabled |-> wrap_ram_enabled,
                               unwrap_ram_enabled |-> unwrap_ram_enabled]]

\* wram::addegress
addegress(s, auth, accs) ==
    IF ~s.ok THEN s
    ELSE IF auth # Self THEN Abort(s, "missing required authority")
    ELSE [s EXCEPT !.egresslist = @ \cup accs]

\* wram::removeegress
removeegress(s, auth, accs) ==
    IF ~s.ok THEN s
    ELSE IF auth # Self THEN Abort(s, "missing required authority")
    ELSE [s EXCEPT !.egresslist = @ \ accs]

\* ---------------------------------------------------------------- migration
\* migrate as it would be without its final mint and delivery
migrate_nomint(s, auth) ==
    IF ~s.ok THEN s
    ELSE IF auth # Self THEN Abort(s, "missing required authority")
    ELSE IF ~s.stat.exists THEN Abort(s, "symbol does not exist")
    ELSE IF s.stat.max_supply = MIGRATE_MAX_SUPPLY THEN Abort(s, "can only be executed once")
    ELSE IF s.accounts[Self] = NoRow THEN Abort(s, "unable to find key")
    ELSE LET balance == s.accounts[Self]
             ram_bytes == s.stat.supply - balance
             s0 == [s EXCEPT !.stat.max_supply = MIGRATE_MAX_SUPPLY,
                             !.migrated = s.stat.supply,
                             !.note = "migrate"]
             s1 == IF balance > 0 THEN retire(s0, Self, balance) ELSE s0
             s2 == IF ram_bytes > 0
                   THEN send_ramtransfer(s1, Self, Self, RAM_BANK, ram_bytes, "migrate to rambank")
                   ELSE s1
         IN s2

\* migrate as it would be without the check that it runs only once
migrate_again(s, auth) ==
    IF ~s.ok THEN s
    ELSE IF auth # Self THEN Abort(s, "missing required authority")
    ELSE IF ~s.stat.exists THEN Abort(s, "symbol does not exist")
    ELSE IF s.accounts[Self] = NoRow THEN Abort(s, "unable to find key")
    ELSE LET balance == s.accounts[Self]
             ram_bytes == s.stat.supply - balance
             s0 == [s EXCEPT !.stat.max_supply = MIGRATE_MAX_SUPPLY,
                             !.migrated = s.stat.supply,
                             !.note = "migrate"]
             s1 == IF balance > 0 THEN retire(s0, Self, balance) ELSE s0
             s2 == IF ram_bytes > 0
                   THEN send_ramtransfer(s1, Self, Self, RAM_BANK, ram_bytes, "migrate to rambank")
                   ELSE s1
             s3 == issue(s2, Self, Self, MIGRATE_MINT)
             s4 == transfer(s3, Self, Self, RAM_BANK, MIGRATE_MINT, RAM_SYMBOL)
         IN s4

\* migrate as it would be if it moved the whole supply, the contract's own
\* balance included
migrate_wholesupply(s, auth) ==
    IF ~s.ok THEN s
    ELSE IF auth # Self THEN Abort(s, "missing required authority")
    ELSE IF ~s.stat.exists THEN Abort(s, "symbol does not exist")
    ELSE IF s.stat.max_supply = MIGRATE_MAX_SUPPLY THEN Abort(s, "can only be executed once")
    ELSE IF s.accounts[Self] = NoRow THEN Abort(s, "unable to find key")
    ELSE LET balance == s.accounts[Self]
             ram_bytes == s.stat.supply
             s0 == [s EXCEPT !.stat.max_supply = MIGRATE_MAX_SUPPLY,
                             !.migrated = s.stat.supply,
                             !.note = "migrate"]
             s1 == IF balance > 0 THEN retire(s0, Self, balance) ELSE s0
             s2 == IF ram_bytes > 0
                   THEN send_ramtransfer(s1, Self, Self, RAM_BANK, ram_bytes, "migrate to rambank")
                   ELSE s1
             s3 == issue(s2, Self, Self, MIGRATE_MINT)
             s4 == transfer(s3, Self, Self, RAM_BANK, MIGRATE_MINT, RAM_SYMBOL)
         IN s4

\* migrate as it would be if a missing balance row counted as a balance of 0
migrate_norow(s, auth) ==
    IF ~s.ok THEN s
    ELSE IF auth # Self THEN Abort(s, "missing required authority")
    ELSE IF ~s.stat.exists THEN Abort(s, "symbol does not exist")
    ELSE IF s.stat.max_supply = MIGRATE_MAX_SUPPLY THEN Abort(s, "can only be executed once")
    ELSE LET balance == IF s.accounts[Self] = NoRow THEN 0 ELSE s.accounts[Self]
             ram_bytes == s.stat.supply - balance
             s0 == [s EXCEPT !.stat.max_supply = MIGRATE_MAX_SUPPLY,
                             !.migrated = s.stat.supply,
                             !.note = "migrate"]
             s1 == IF balance > 0 THEN retire(s0, Self, balance) ELSE s0
             s2 == IF ram_bytes > 0
                   THEN send_ramtransfer(s1, Self, Self, RAM_BANK, ram_bytes, "migrate to rambank")
                   ELSE s1
             s3 == issue(s2, Self, Self, MIGRATE_MINT)
             s4 == transfer(s3, Self, Self, RAM_BANK, MIGRATE_MINT, RAM_SYMBOL)
         IN s4

\* wram::migrate
migrate(s, auth) ==
    IF ~s.ok THEN s
    ELSE IF auth # Self THEN Abort(s, "missing required authority")
    ELSE IF ~s.stat.exists THEN Abort(s, "symbol does not exist")
    ELSE IF s.stat.max_supply = MIGRATE_MAX_SUPPLY THEN Abort(s, "can only be executed once")
    ELSE IF s.accounts[Self] = NoRow THEN Abort(s, "unable to find key")
    ELSE LET balance == s.accounts[Self]
             ram_bytes == s.stat.supply - balance
             s0 == [s EXCEPT !.stat.max_supply = MIGRATE_MAX_SUPPLY,
                             !.migrated = s.stat.supply,
                             !.note = "migrate"]
             s1 == IF balance > 0 THEN retire(s0, Self, balance) ELSE s0
             s2 == IF ram_bytes > 0
                   THEN send_ramtransfer(s1, Self, Self, RAM_BANK, ram_bytes, "migrate to rambank")
                   ELSE s1
             s3 == issue(s2, Self, Self, MIGRATE_MINT)
             s4 == transfer(s3, Self, Self, RAM_BANK, MIGRATE_MINT, RAM_SYMBOL)
         IN s4

\* ------------------------------------------------------------------- steps
\* accounts whose key signs a top-level trigger
Actors == {Self} \cup Users
\* quantities a trigger is called with (0 stands for the non-positive ones)
Bytes == 0 .. MaxBytes

\* no wrap to remember
NoSnap == [valid |-> FALSE, op |-> "", to |-> Self, n |-> 0, ram_to |-> 0,
           supply |-> 0, balance |-> 0, ram_bank |-> 0]

\* the balance get_balance reports, 0 for an account without a row
Bal(acc, a) == IF acc[a] = NoRow THEN 0 ELSE acc[a]

\* the committed outcome of a trigger: its effects when every check passed,
\* nothing when one failed.  last records the trigger either way (undo names
\* the trigger of the wrap that a committed unwrap has just reversed); snap
\* keeps what a committed wrap started from
Commit(op, r) ==
    /\ stat' = IF r.ok THEN r.stat ELSE stat
    /\ accounts' = IF r.ok THEN r.accounts ELSE accounts
    /\ config' = IF r.ok THEN r.config ELSE config
    /\ egresslist' = IF r.ok THEN r.egresslist ELSE egresslist
    /\ ram' = IF r.ok THEN r.ram ELSE ram
    /\ foreign' = IF r.ok THEN r.foreign ELSE foreign
    /\ pool_net' = IF r.ok THEN r.pool_net ELSE pool_net
    /\ migrated' = IF r.ok THEN r.migrated ELSE migrated
    /\ last' = [op |-> op, ok |-> r.ok, msg |-> r.msg,
                note |-> IF r.ok THEN r.note ELSE "",
                undo |-> IF r.ok /\ r.note = "unwrap ram" /\ snap.valid
                            /\ r.to = snap.to /\ r.n = snap.n
                         THEN snap.op ELSE ""]
    /\ snap' = IF r.ok /\ r.note = "wrap ram"
               THEN [valid |-> TRUE, op |-> op, to |-> r.to, n |-> r.n,
                     ram_to |-> ram[r.to], supply |-> stat.supply,
                     balance |-> Bal(accounts, r.to), ram_bank |-> ram[RAM_BANK]]
               ELSE NoSnap

\* the state after deployment: no token, no rows, the default policy
Init ==
    /\ stat = [exists |-> FALSE, supply |-> 0, max_supply |-> 0, issuer |-> Self]
    /\ accounts = [a \in Accounts |-> NoRow]
    /\ config = [wrap_ram_enabled |-> TRUE, unwrap_ram_enabled |-> FALSE]
    /\ egresslist = {}
    /\ ram = [a \in Accounts |-> IF a \in Users THEN UserRam ELSE 0]
    /\ foreign = MaxForeign
    /\ pool_net = 0
    /\ migrated = NoRow
    /\ last = [op |-> "init", ok |-> TRUE, msg |-> "", note |-> "", undo |-> ""]
    /\ snap = NoSnap

\* eosio::ramtransfer(from, to, bytes, memo), signed by from
RamTransferStep(from, to, bytes, memo) ==
    Commit("ramtransfer", sys_ramtransfer(Cur, from, from, to, bytes, memo))

\* eosio::ramtransfer that notifies the contract
RamTransfer ==
    \E from \in Actors, to \in Actors, bytes \in Bytes, memo \in Memos :
        /\ Self \in {from, to}
        /\ RamTransferStep(from, to, bytes, memo)

\* eosio::buyram(payer, receiver, bytes) while the chain has RAM to sell
BuyRamStep(payer, receiver, bytes) ==
    /\ SumRam(ram, Accounts) + bytes <= MaxRam
    /\ Commit("logbuyram", sys_buyram(Cur, payer, receiver, bytes))

\* eosio::buyram whose logbuyram notifies the contract
BuyRam ==
    \E payer \in Actors, receiver \in Actors, bytes \in Bytes :
        /\ Self \in {payer, receiver}
        /\ BuyRamStep(payer, receiver, bytes)

\* transfer(from, to, quantity, memo) of a foreign token contract
ForeignTransferStep(from, to, quantity, sym, memo) ==
    Commit("on_transfer", foreign_transfer(Cur, from, to, quantity, sym, memo))

\* a foreign token transfer that notifies the contract
ForeignTransfer ==
    \E from \in Actors, to \in Actors, q \in Bytes, sym \in Symbols, memo \in Memos :
        /\ Self \in {from, to}
        /\ ForeignTransferStep(from, to, q, sym, memo)

\* the unwrap action, signed by auth
UnwrapStep(auth, owner, bytes) ==
    Commit("unwrap", unwrap(Cur, auth, owner, bytes))

Unwrap ==
    \E auth \in Actors, owner \in Actors, bytes \in Bytes :
        UnwrapStep(auth, owner, bytes)

\* the cfg action, signed by auth
CfgStep(auth, w, u) ==
    Commit("cfg", cfg(Cur, auth, w, u))

Cfg ==
    \E auth \in Actors, w \in BOOLEAN, u \in BOOLEAN :
        CfgStep(auth, w, u)

\* the migrate action, signed by auth
MigrateStep(auth) ==
    Commit("migrate", migrate(Cur, auth))

Migrate ==
    \E auth \in Actors :
        MigrateStep(auth)

Create ==
    \E auth \in Actors, issuer \in Actors, m \in CreateSupplies :
        Commit("create", create(Cur, auth, issuer, m))

Issue ==
    \E auth \in Actors, to \in Actors, q \in Bytes :
        Commit("issue", issue(Cur, auth, to, q))

Retire ==
    \E auth \in Actors, q \in Bytes :
        Commit("retire", retire(Cur, auth, q))

\* the transfer action, signed by auth
TransferStep(auth, from, to, q, sym) ==
    Commit("transfer", transfer(Cur, auth, from, to, q, sym))

Transfer ==
    \E auth \in Actors, from \in Actors, to \in Accounts, q \in Bytes, sym \in Symbols :
        TransferStep(auth, from, to, q, sym)

Open ==
    \E payer \in Actors, owner \in Accounts :
        Commit("open", open(Cur, payer, owner, payer))

Close ==
    \E auth \in Actors, owner \in Actors :
        Commit("close", close(Cur, auth, owner))

AddEgress ==
    \E auth \in Actors, acc \in Accounts :
        Commit("addegress", addegress(Cur, auth, {acc}))

RemoveEgress ==
    \E auth \in Actors, acc \in Accounts :
        Commit("removeegress", removeegress(Cur, auth, {acc}))

\* addegress of one ordinary account, signed by the contract
AddEgressUser ==
    \E acc \in Users :
        Commit("addegress", addegress(Cur, Self, {acc}))

\* a trigger that commits; an aborted trigger leaves no trace on the chain
\* and is a stuttering step
Committed(A) == A /\ last'.ok

\* the token ledger and the engine that drives it
Next ==
    \/ Committed(RamTransfer) \/ Committed(BuyRam)
    \/ Committed(Unwrap) \/ Committed(Cfg) \/ Committed(Migrate)
    \/ Committed(Create) \/ Committed(Issue) \/ Committed(Retire)
    \/ Committed(Transfer) \/ Committed(Open) \/ Committed(Close)

Spec == Init /\ [][Next]_vars

\* the token created by the contract account, as the engine needs it
InitEngine ==
    /\ \E m \in CreateSupplies :
          stat = [exists |-> TRUE, supply |-> 0, max_supply |-> m, issuer |-> Self]
    /\ accounts = [a \in Accounts |-> NoRow]
    /\ config = [wrap_ram_enabled |-> TRUE, unwrap_ram_enabled |-> FALSE]
    /\ egresslist = {}
    /\ ram = [a \in Accounts |-> IF a \in Users THEN UserRam ELSE 0]
    /\ foreign = MaxForeign
    /\ pool_net = 0
    /\ migrated = NoRow
    /\ last = [op |-> "create", ok |-> TRUE, msg |-> "", note |-> "", undo |-> ""]
    /\ snap = NoSnap

\* the wrap/unwrap engine: notifications, unwrap, cfg and migrate, with the
\* aborted triggers observed in last
NextEngine ==
    \/ RamTransfer \/ BuyRam \/ ForeignTransfer
    \/ Unwrap \/ Cfg \/ Migrate

SpecEngine == InitEngine /\ [][NextEngine]_vars

\* the engine and the ledger's transfer under a changing egress list
NextEgress ==
    \/ RamTransfer \/ BuyRam \/ Transfer \/ Migrate
    \/ AddEgress \/ RemoveEgress

SpecEgress == InitEngine /\ [][NextEgress]_vars

\* migrate observed, aborted or not, among every committed trigger of the
\* ledger and the engine
NextMigrate ==
    \/ Migrate
    \/ Committed(RamTransfer) \/ Committed(BuyRam)
    \/ Committed(Unwrap) \/ Committed(Cfg)
    \/ Committed(Create) \/ Committed(Issue) \/ Committed(Retire)
    \/ Committed(Transfer) \/ Committed(Open) \/ Committed(Close)

SpecMigrate == Init /\ [][NextMigrate]_vars

\* the token created for an issuer that may or may not be the contract
InitAtomic ==
    /\ \E m \in CreateSupplies, issuer \in Actors :
          stat = [exists |-> TRUE, supply |-> 0, max_supply |-> m, issuer |-> issuer]
    /\ accounts = [a \in Accounts |-> NoRow]
    /\ config = [wrap_ram_enabled |-> TRUE, unwrap_ram_enabled |-> FALSE]
    /\ egresslist = {}
    /\ ram = [a \in Accounts |-> IF a \in Users THEN UserRam ELSE 0]
    /\ foreign = MaxForeign
    /\ pool_net = 0
    /\ migrated = NoRow
    /\ last = [op |-> "create", ok |-> TRUE, msg |-> "", note |-> "", undo |-> ""]
    /\ snap = NoSnap

\* the wrap and unwrap triggers observed, aborted or not, on a ledger whose
\* issuer issues and transfers tokens and whose egress list takes in users
NextAtomic ==
    \/ RamTransfer \/ BuyRam \/ Unwrap
    \/ Committed(Cfg) \/ Committed(Issue)
    \/ Committed(Transfer) \/ Committed(AddEgressUser)

SpecAtomic == InitAtomic /\ [][NextAtomic]_vars

TypeOK ==
    /\ stat.supply \in Nat
    /\ \A a \in Accounts : accounts[a] >= NoRow /\ ram[a] >= 0

\* ------------------------------------------------------------------ claims
\* the step is the trigger the formula names
IsRamTransfer(from, to, bytes, memo) ==
    last'.op = "ramtransfer" /\ RamTransferStep(from, to, bytes, memo)
IsBuyRam(payer, receiver, bytes) ==
    last'.op = "logbuyram" /\ BuyRamStep(payer, receiver, bytes)
IsForeignTransfer(from, to, quantity, sym, memo) ==
    last'.op = "on_transfer" /\ ForeignTransferStep(from, to, quantity, sym, memo)
IsUnwrap(auth, owner, bytes) ==
    last'.op = "unwrap" /\ UnwrapStep(auth, owner, bytes)
IsMigrate(auth) ==
    last'.op = "migrate" /\ MigrateStep(auth)
IsTransfer(auth, from, to, q, sym) ==
    last'.op = "transfer" /\ TransferStep(auth, from, to, q, sym)
IsCfg(auth, w, u) ==
    last'.op = "cfg" /\ CfgStep(auth, w, u)

\* C1: in every committed state reachable by create, issue, retire, transfer,
\* open, close, the wrap triggers, unwrap, cfg and migrate, the WRAM supply is
\* the sum of all WRAM balances and is at most max_supply; migrate, which
\* lowers max_supply without looking at the supply, commits no state above it.
C1_SupplyInvariant ==
    /\ stat.supply = SumBalances(accounts, Accounts)
    /\ stat.supply <= stat.max_supply

\* a migrate that started from a nonzero supply has committed and the supply
\* stands at the new ceiling
C1_Witness ==
    /\ last.op = "migrate" /\ last.ok
    /\ migrated > 0
    /\ stat.supply = stat.max_supply

C3_WrapTriggersGated ==
    [][ ~config.wrap_ram_enabled =>
          \A a \in Actors, bytes \in Bytes :
             (IsRamTransfer(a, Self, bytes, "memo") \/ IsBuyRam(a, Self, bytes))
                => (~last'.ok /\ UNCHANGED chain) ]_vars

\* C3 as amended: while wrap_ram_enabled is false, every ramtransfer to the
\* contract with a memo other than the sentinel aborts and changes nothing
\* (the flag does not gate logbuyram).
C3_RamTransferGated ==
    [][ ~config.wrap_ram_enabled =>
          \A a \in Actors, bytes \in Bytes :
             IsRamTransfer(a, Self, bytes, "memo")
                => (~last'.ok /\ UNCHANGED chain) ]_vars

\* a ramtransfer to the contract was rejected by the policy check
C3_Witness ==
    /\ ~config.wrap_ram_enabled
    /\ last.op = "ramtransfer" /\ ~last.ok
    /\ last.msg = "wrap ram is currently disabled"

\* C4: the policy starts with unwrap disabled; while unwrap_ram_enabled is
\* false every unwrap aborts and changes nothing; and only a committed cfg
\* turns unwrap_ram_enabled on, so no unwrap commits before such a cfg.
C4_UnwrapGated ==
    /\ ~config.unwrap_ram_enabled
    /\ [][ /\ ~config.unwrap_ram_enabled =>
                \A auth \in Actors, owner \in Actors, bytes \in Bytes :
                   IsUnwrap(auth, owner, bytes) => (~last'.ok /\ UNCHANGED chain)
           /\ (~config.unwrap_ram_enabled /\ config'.unwrap_ram_enabled)
                => (last'.op = "cfg" /\ last'.ok) ]_vars

\* an unwrap of tokens the owner holds was rejected by the policy check
C4_Witness ==
    /\ ~config.unwrap_ram_enabled
    /\ last.op = "unwrap" /\ ~last.ok
    /\ last.msg = "unwrap ram is currently disabled"

\* C5 as stated: with both policies enabled, unwrap(A, n) right after a wrap
\* of n for A commits and restores A's RAM, the supply, A's balance and
\* RAM_BANK's RAM to their values before the wrap, whichever trigger wrapped.
C5_RoundTripRestoresAll ==
    [][ (/\ snap.valid
         /\ config.wrap_ram_enabled /\ config.unwrap_ram_enabled
         /\ IsUnwrap(snap.to, snap.to, snap.n))
        => /\ last'.ok
           /\ ram'[snap.to] = snap.ram_to
           /\ stat'.supply = snap.supply
           /\ Bal(accounts', snap.to) = snap.balance
           /\ ram'[RAM_BANK] = snap.ram_bank ]_vars

\* C5 as amended: the supply, A's balance and RAM_BANK's RAM are restored
\* whichever trigger wrapped; A's RAM is restored after a ramtransfer wrap and
\* ends n above its value before the wrap after a logbuyram wrap.
C5_RoundTrip ==
    [][ (/\ snap.valid
         /\ config.wrap_ram_enabled /\ config.unwrap_ram_enabled
         /\ IsUnwrap(snap.to, snap.to, snap.n))
        => /\ last'.ok
           /\ ram'[snap.to] = snap.ram_to + (IF snap.op = "logbuyram" THEN snap.n ELSE 0)
           /\ stat'.supply = snap.supply
           /\ Bal(accounts', snap.to) = snap.balance
           /\ ram'[RAM_BANK] = snap.ram_bank ]_vars

\* an unwrap has just reversed a wrap that a ramtransfer triggered
C5_Witness ==
    /\ last.op = "unwrap" /\ last.ok
    /\ last.undo = "ramtransfer"
    /\ config.wrap_ram_enabled /\ config.unwrap_ram_enabled

\* n tokens minted to account a and to nobody else
Minted(a, n) ==
    /\ stat'.supply = stat.supply + n
    /\ Bal(accounts', a) = Bal(accounts, a) + n
    /\ \A o \in Accounts \ {a} : Bal(accounts', o) = Bal(accounts, o)

\* m tokens of account a burned and m RAM released from RAM_BANK to a
Burned(a, m) ==
    /\ stat'.supply = stat.supply - m
    /\ Bal(accounts', a) = Bal(accounts, a) - m
    /\ \A o \in Accounts \ {a} : Bal(accounts', o) = Bal(accounts, o)
    /\ ram'[RAM_BANK] = ram[RAM_BANK] - m
    /\ ram'[a] = ram[a] + m

\* C6: a committed wrap of n raises the supply and exactly one balance by n,
\* that of from after ramtransfer(from, contract, n) and that of payer after
\* logbuyram(payer, contract, n); a committed unwrap(owner, m) lowers the
\* supply and owner's balance by m, changes no other balance and releases m
\* RAM from RAM_BANK to owner.
C6_WrapUnwrapAmounts ==
    [][ /\ \A from \in Actors, bytes \in Bytes :
             (IsRamTransfer(from, Self, bytes, "memo") /\ last'.ok)
                => Minted(from, bytes)
        /\ \A payer \in Actors, bytes \in Bytes :
             (IsBuyRam(payer, Self, bytes) /\ last'.ok)
                => Minted(payer, bytes)
        /\ \A auth \in Actors, owner \in Actors, m \in Bytes :
             (IsUnwrap(auth, owner, m) /\ last'.ok)
                => Burned(owner, m) ]_vars

\* the scenario of the claim: after wraps of 2 in all, the holder has
\* unwrapped 1 and holds 1 of a supply of 1
C6_Witness ==
    /\ last.op = "unwrap" /\ last.ok
    /\ migrated = NoRow
    /\ stat.supply = 1 /\ Bal(accounts, "alice") = 1
    /\ pool_net = 1

C8_ForeignTransferRejected ==
    [][ /\ \/ ~last'.ok /\ UNCHANGED chain
           \/ \A from \in Actors, q \in Bytes, sym \in Symbols, memo \in Memos :
                 ~IsForeignTransfer(from, Self, q, sym, memo)
        /\ \/ ~last'.ok
           \/ /\ last'.note = ""
              /\ UNCHANGED <<stat, accounts, config, egresslist, ram,
                             pool_net, migrated>>
           \/ \A to \in Actors \ {Self}, q \in Bytes, sym \in Symbols, memo \in Memos :
                 ~IsForeignTransfer(Self, to, q, sym, memo) ]_vars

\* a token transfer to the contract was rejected by on_transfer
C8_Witness ==
    /\ last.op = "on_transfer" /\ ~last.ok
    /\ last.msg = "only eosio.wram token transfers are allowed"

\* C9: migrate commits at most once: a migrate commits only when none has
\* committed before; once max_supply is the target it stays the target, and
\* every migrate called then aborts and changes nothing, whatever triggers of
\* the engine and the ledger have committed in between.
C9_MigrateOnce ==
    [][ /\ stat.max_supply = MIGRATE_MAX_SUPPLY =>
             /\ \A auth \in Actors :
                   IsMigrate(auth) => (~last'.ok /\ UNCHANGED chain)
             /\ stat'.max_supply = MIGRATE_MAX_SUPPLY
        /\ (last'.op = "migrate" /\ last'.ok) => migrated = NoRow ]_vars

\* a second migrate was rejected after a first one had committed
C9_Witness ==
    /\ migrated # NoRow
    /\ last.op = "migrate" /\ ~last.ok
    /\ last.msg = "can only be executed once"

\* C10: for every account B on the egress list, a transfer to B aborts and
\* changes nothing, and so does a wrap for B, by ramtransfer or by logbuyram,
\* whose RAM move into RAM_BANK and mint are undone with it.
C10_EgressBlocked ==
    [][ \/ ~last'.ok /\ UNCHANGED chain
        \/ \A B \in egresslist :
              /\ \A auth \in Actors, from \in Actors, q \in Bytes, sym \in Symbols :
                    ~IsTransfer(auth, from, B, q, sym)
              /\ \A bytes \in Bytes :
                    ~(IsRamTransfer(B, Self, bytes, "memo") \/ IsBuyRam(B, Self, bytes)) ]_vars

\* the delivery step of a wrap was rejected because its receiver is on the
\* egress list
C10_Witness ==
    /\ last.op \in {"ramtransfer", "logbuyram"} /\ ~last.ok
    /\ last.msg = "transfer disabled to receiver"
    /\ "alice" \in egresslist

\* the messages of the checks that fail after a wrap has dispatched its RAM
\* move, and after an unwrap has moved the owner's tokens to the contract
LateWrapFailures ==
    {"quantity exceeds available supply", "transfer disabled to receiver"}
LateUnwrapFailures ==
    {"missing required authority", "eosio: insufficient ram"}

\* C11: a wrap of n for a that passes its own checks and dispatches the RAM
\* move, but whose issue fails (supply + n > max_supply) or whose delivery
\* fails (a is on the egress list), aborts in that late step and commits the
\* supply, the balances, the contract's RAM and RAM_BANK's RAM it started
\* from; an unwrap whose retire or RAM release fails aborts there and leaves
\* the owner's balance, and everything else, unchanged.
C11_LateFailureAtomic ==
    [][ /\ \/ /\ ~last'.ok /\ last'.msg \in LateWrapFailures
              /\ stat' = stat /\ accounts' = accounts /\ ram' = ram
              /\ UNCHANGED chain
           \/ \A a \in Users, n \in Bytes \ {0} :
                ~(/\ stat.exists /\ stat.issuer = Self
                  /\ stat.supply + n > stat.max_supply \/ a \in egresslist
                  /\ \/ /\ config.wrap_ram_enabled /\ ram[a] >= n
                         /\ IsRamTransfer(a, Self, n, "memo")
                     \/ IsBuyRam(a, Self, n))
        /\ \/ /\ ~last'.ok /\ last'.msg \in LateUnwrapFailures
              /\ accounts' = accounts
              /\ UNCHANGED chain
           \/ \A owner \in Users, m \in Bytes \ {0} :
                ~(/\ stat.exists /\ config.unwrap_ram_enabled
                  /\ Self \notin egresslist
                  /\ accounts[owner] >= m
                  /\ stat.issuer # Self \/ ram[RAM_BANK] < m
                  /\ IsUnwrap(owner, owner, m)) ]_vars

\* a wrap was aborted by its issue step, after its RAM move was dispatched
C11_Witness ==
    /\ last.op \in {"ramtransfer", "logbuyram"} /\ ~last.ok
    /\ last.msg = "quantity exceeds available supply"
    /\ stat.issuer = Self /\ stat.supply > 0

\* C12: an unwrap(owner, bytes) signed by an account other than owner aborts
\* and changes nothing, so every unwrap that commits, burning owner's tokens
\* and releasing RAM from RAM_BANK, carries owner's own authorization.
C12_UnwrapNeedsOwner ==
    [][ \A auth \in Actors, owner \in Actors, bytes \in Bytes :
           IsUnwrap(auth, owner, bytes)
              => /\ auth # owner => (~last'.ok /\ UNCHANGED chain)
                 /\ (\/ Bal(accounts', owner) < Bal(accounts, owner)
                     \/ ram'[RAM_BANK] < ram[RAM_BANK]) => auth = owner ]_vars

\* a third party's unwrap of tokens the owner holds, with unwrap enabled,
\* was rejected for want of the owner's authorization
C12_Witness ==
    /\ last.op = "unwrap" /\ ~last.ok
    /\ last.msg = "missing required authority"
    /\ config.unwrap_ram_enabled
    /\ Bal(accounts, "alice") > 0 /\ ram[RAM_BANK] > 0

\* C13: a migrate that commits from supply S and contract balance b leaves
\* max_supply at the target, the contract's balance at 0, RAM_BANK's balance
\* MIGRATE_MINT higher, every other balance as it was and the supply at
\* S - b + MIGRATE_MINT, and has moved exactly S - b RAM from the contract to
\* RAM_BANK; the seed is minted after the retire, so migrate commits whenever
\* S - b + MIGRATE_MINT fits the target and the contract holds S - b RAM.
C13_MigrateEffect ==
    [][ IsMigrate(Self) =>
          LET S == stat.supply
              b == Bal(accounts, Self)
          IN /\ last'.ok =>
                  /\ stat'.max_supply = MIGRATE_MAX_SUPPLY
                  /\ accounts'[Self] = 0
                  /\ Bal(accounts', RAM_BANK) = Bal(accounts, RAM_BANK) + MIGRATE_MINT
                  /\ \A u \in Users : accounts'[u] = accounts[u]
                  /\ stat'.supply = S - b + MIGRATE_MINT
                  /\ ram'[Self] = ram[Self] - (S - b)
                  /\ ram'[RAM_BANK] = ram[RAM_BANK] + (S - b)
                  /\ \A u \in Users : ram'[u] = ram[u]
                  /\ pool_net' = pool_net + (S - b)
                  /\ UNCHANGED <<config, egresslist, foreign>>
             /\ (/\ stat.exists /\ stat.issuer = Self
                 /\ stat.max_supply # MIGRATE_MAX_SUPPLY
                 /\ accounts[Self] # NoRow
                 /\ S - b + MIGRATE_MINT <= MIGRATE_MAX_SUPPLY
                 /\ ram[Self] >= S - b)
                => last'.ok ]_vars

\* a migrate has committed from supply 2 and contract balance 1: it retired
\* 1, moved 1 RAM and minted the seed up to the ceiling
C13_Witness ==
    /\ last.op = "migrate" /\ last.ok
    /\ migrated = 2 /\ stat.supply = 2
    /\ ram[RAM_BANK] >= 1

\* C14: cfg(w, u) signed by the contract commits, leaves the policy at exactly
\* (w, u) whatever it was, and changes nothing else; cfg signed by anyone
\* else aborts and changes nothing; and no other trigger changes the policy,
\* so the policy a later wrap or unwrap meets is the one the most recent
\* committed cfg wrote (the default one while no cfg has committed).
C14_CfgFrame ==
    [][ /\ \A auth \in Actors, w \in BOOLEAN, u \in BOOLEAN :
             IsCfg(auth, w, u) =>
                /\ auth = Self =>
                      /\ last'.ok
                      /\ config' = [wrap_ram_enabled |-> w, unwrap_ram_enabled |-> u]
                      /\ UNCHANGED <<stat, accounts, egresslist, ram, foreign,
                                     pool_net, migrated>>
                /\ auth # Self => (~last'.ok /\ UNCHANGED chain)
        /\ config' # config => (last'.op = "cfg" /\ last'.ok) ]_vars

\* a cfg has turned wrap off and unwrap on while tokens are in circulation
C14_Witness ==
    /\ last.op = "cfg" /\ last.ok
    /\ ~config.wrap_ram_enabled /\ config.unwrap_ram_enabled
    /\ stat.supply > 0

\* C15: the handler of a ramtransfer notification to the contract returns
\* without a check and without an effect when the memo is "ignore", for every
\* sender, every amount (0 stands for the non-positive ones) and every
\* policy; so a ramtransfer of RAM that from holds, sent with that memo,
\* commits, mints nothing, leaves the supply, every balance and RAM_BANK's
\* RAM as they were, and leaves the RAM with the contract.
C15_IgnoreNeverMints ==
    [][ /\ \A from \in Actors, bytes \in Bytes :
             on_ramtransfer(Cur, from, Self, bytes, "ignore") = Cur
        /\ \A from \in Users, bytes \in Bytes \ {0} :
             (ram[from] >= bytes /\ IsRamTransfer(from, Self, bytes, "ignore"))
                => /\ last'.ok /\ last'.note = ""
                   /\ stat' = stat /\ accounts' = accounts
                   /\ pool_net' = pool_net
                   /\ ram'[RAM_BANK] = ram[RAM_BANK]
                   /\ ram'[Self] = ram[Self] + bytes
                   /\ ram'[from] = ram[from] - bytes ]_vars

\* RAM sent with the sentinel memo was accepted while wrap was disabled and
\* stays with the contract
C15_Witness ==
    /\ last.op = "ramtransfer" /\ last.ok /\ last.note = ""
    /\ ~config.wrap_ram_enabled
    /\ ram[Self] > 0 /\ ram["alice"] = 0

\* C16: the handler ignores the notifications of the engine's own RAM moves,
\* contract -> RAM_BANK and RAM_BANK -> owner, whose receiver is not the
\* contract; so a wrap trigger of n that the supply ceiling admits commits
\* and mints n once, moving n RAM into RAM_BANK once, a committed unwrap of
\* m mints nothing and a committed migrate mints MIGRATE_MINT and no more.
C16_OwnMovesNeverWrap ==
    [][ /\ \A bytes \in Bytes, memo \in Memos, owner \in Users :
             /\ on_ramtransfer(Cur, Self, RAM_BANK, bytes, memo) = Cur
             /\ on_ramtransfer(Cur, RAM_BANK, owner, bytes, memo) = Cur
        /\ \A a \in Users, n \in Bytes \ {0} :
             (\/ /\ config.wrap_ram_enabled /\ ram[a] >= n
                 /\ IsRamTransfer(a, Self, n, "memo")
              \/ IsBuyRam(a, Self, n))
             => /\ last'.ok <=> stat.supply + n <= stat.max_supply
                /\ last'.ok =>
                     /\ stat'.supply = stat.supply + n
                     /\ SumBalances(accounts', Accounts) = SumBalances(accounts, Accounts) + n
                     /\ pool_net' = pool_net + n
        /\ \A owner \in Users, m \in Bytes :
             (IsUnwrap(owner, owner, m) /\ last'.ok)
             => /\ stat'.supply = stat.supply - m
                /\ pool_net' = pool_net - m
                /\ \A a \in Accounts : Bal(accounts', a) <= Bal(accounts, a)
        /\ (IsMigrate(Self) /\ last'.ok)
             => /\ stat'.supply = stat.supply + MIGRATE_MINT
                /\ Bal(accounts', RAM_BANK) = Bal(accounts, RAM_BANK) + MIGRATE_MINT
                /\ \A a \in Accounts \ {RAM_BANK} : Bal(accounts', a) = Bal(accounts, a) ]_vars

\* wraps of 2 in all have committed: the supply and the RAM moved into
\* RAM_BANK both stand at 2, the notifications of the moves having minted
\* nothing
C16_Witness ==
    /\ last.ok /\ last.note = "wrap ram"
    /\ migrated = NoRow
    /\ stat.supply = 2 /\ pool_net = 2 /\ ram[RAM_BANK] = 2
    /\ Bal(accounts, Self) = 0

\* C17: unwrap(owner, bytes) aborts and changes nothing when bytes is not
\* positive, when bytes exceeds owner's balance, when owner has no balance
\* row and when owner is the contract; so a committed unwrap of m takes m
\* from a balance of at least m, and no balance goes below 0.
C17_UnwrapBounds ==
    [][ \A auth \in Actors, owner \in Actors, bytes \in Bytes :
           IsUnwrap(auth, owner, bytes)
              => /\ (\/ bytes <= 0
                     \/ bytes > Bal(accounts, owner)
                     \/ accounts[owner] = NoRow
                     \/ owner = Self) => (~last'.ok /\ UNCHANGED chain)
                 /\ last'.ok => /\ accounts[owner] >= bytes
                                /\ accounts'[owner] = accounts[owner] - bytes
                                /\ accounts'[owner] >= 0 ]_vars

\* with unwrap enabled, an owner holding tokens asked for more than held and
\* was refused
C17_Witness ==
    /\ last.op = "unwrap" /\ ~last.ok
    /\ last.msg = "overdrawn balance"
    /\ config.unwrap_ram_enabled
    /\ accounts["alice"] > 0 /\ ram[RAM_BANK] >= accounts["alice"]

\* the triggers of the engine that leave the contract's own balance alone
PassThroughOps == {"ramtransfer", "logbuyram", "unwrap", "cfg"}

\* C18: every wrap and every unwrap that commits leaves the contract's own
\* balance at its value before the trigger, whatever that value, and a
\* migrate that commits leaves it at 0; so a balance of 0 is still 0 after
\* any wrap trigger, unwrap, cfg or migrate.
C18_ContractBalancePassesThrough ==
    [][ /\ last'.op \in PassThroughOps
             => Bal(accounts', Self) = Bal(accounts, Self)
        /\ (last'.op = "migrate" /\ last'.ok) => accounts'[Self] = 0
        /\ (last'.op \in PassThroughOps \cup {"migrate"} /\ Bal(accounts, Self) = 0)
             => Bal(accounts', Self) = 0 ]_vars

\* a wrap has committed while the contract held tokens of its own, which it
\* still holds
C18_Witness ==
    /\ last.ok /\ last.note = "wrap ram"
    /\ accounts[Self] = 1
    /\ accounts["alice"] >= 1

\* C19: migrate aborts and changes nothing, max_supply included, when it is
\* not signed by the contract, when the stats row of WRAM does not exist and
\* when the contract has no balance row; a row with a balance of 0 is enough:
\* migrate then commits, retiring nothing, whenever the seed fits the target
\* and the contract holds the RAM to move.
C19_MigrateAborts ==
    [][ /\ \A auth \in Actors :
             (/\ auth # Self \/ ~stat.exists \/ accounts[Self] = NoRow
              /\ IsMigrate(auth))
             => /\ ~last'.ok
                /\ stat'.max_supply = stat.max_supply
                /\ UNCHANGED chain
        /\ (/\ stat.exists /\ stat.issuer = Self
            /\ stat.max_supply # MIGRATE_MAX_SUPPLY
            /\ accounts[Self] = 0
            /\ stat.supply + MIGRATE_MINT <= MIGRATE_MAX_SUPPLY
            /\ ram[Self] >= stat.supply
            /\ IsMigrate(Self))
           => /\ last'.ok
              /\ stat'.supply = stat.supply + MIGRATE_MINT ]_vars

\* a migrate signed by the contract was refused because the contract has
\* closed its balance row, the tokens it issued being in circulation
C19_Witness ==
    /\ last.op = "migrate" /\ ~last.ok
    /\ last.msg = "unable to find key"
    /\ stat.exists /\ stat.issuer = Self /\ stat.supply > 0
    /\ accounts[Self] = NoRow

====
